---- MODULE Spec2Model ----
(***************************************************************************)
(* labelwrangler.py: the commands of the cli group (head, strip-html,       *)
(* deduplicate, stat, dropna, remove, random-downsample, merge), modelled  *)
(* as one command-line process working on a CSV file.                      *)
(*                                                                         *)
(* A string is a sequence of characters and a character is its Unicode     *)
(* code point, the integer ord(c), so that splitting on commas and         *)
(* stripping white space are visible and every character of Unicode has    *)
(* one value whatever the encoding of this file: "a, b" is                 *)
(* <<97, 44, 32, 98>>.  Str spells such a sequence from ASCII characters.  *)
(* A table (a pandas DataFrame) is a sequence of rows; a row is a record   *)
(* with the index label it was loaded with (id) and its label (lbl).  The  *)
(* table has the columns "id" and "lbl".                                   *)
(*                                                                         *)
(* Library behaviour relied on (pandas 1.x, numpy, click):                 *)
(*  - DataFrame.sample(n, random_state=int) takes the rows at positions    *)
(*    RandomState(int).permutation(len)[:n], in that order, and raises     *)
(*    ValueError when n < 0 or n > len;                                    *)
(*  - RandomState(int) is MT19937 seeded by init_genrand; permutation is   *)
(*    the Fisher-Yates shuffle drawing each index by masked rejection;     *)
(*  - bool(Series) raises ValueError;                                      *)
(*  - click (standalone mode) ignores a command's return value and exits   *)
(*    with status 0; an uncaught exception ends the process with status 1, *)
(*    and sys.exit(n) with status n;                                       *)
(*  - drop_duplicates keeps the first row of each group; dropna raises     *)
(*    KeyError for a subset name that is no column; re.sub on a cell that  *)
(*    is no string (a number, a missing value) raises TypeError.           *)
(***************************************************************************)
EXTENDS Integers, Sequences, FiniteSets, TLC

VARIABLES
    input_file,    \* the table stored in INPUT_FILE
    output_file,   \* OUTPUT_FILE: whether it was written, and the table in it
    argv,          \* the command line of the process
    pc,            \* "start", "loop" (random-downsample's for loop), "done"
    df,            \* the table in memory, empty before read_csv
    include,       \* random-downsample's parsed include list
    i,             \* position of the for loop in include
    missing,       \* merge's counter of unknown labels
    reported,      \* the labels merge printed as "Could not find column"
    error,         \* the uncaught exception that ended the process, or NoError
    exit_status,   \* the process's exit status, Running until it ends
    rng,           \* the generator the last sample call drew from
    prev_df,       \* history: df before the last loop iteration
    run,           \* history: 1 for the first process, 2 for the repeated one
    first_result   \* history: output and exit status of the first process

vars == <<input_file, output_file, argv, pc, df, include, i, missing, reported,
          error, exit_status, rng, prev_df, run, first_result>>

\* ------------------------------------------------------------------ bounds

\* Largest number of rows of the input table.
MaxRows == 4

\* Largest value of --maximum tried.
MaxMaximum == 3

\* ------------------------------------------------------------- basic values

\* Python's None for an option that was not given: no string of code points.
None == <<0 - 1>>

\* No uncaught exception.
NoError == "None"

\* OUTPUT_FILE not written.
NoFile == [written |-> FALSE, table |-> <<>>]

\* OUTPUT_FILE after df.to_csv(output_file).
File(t) == [written |-> TRUE, table |-> t]

\* The exit status of a process that is still running.
Running == 0 - 1

\* No sample call has built a generator yet.
NoGenerator == [seed |-> 0 - 1, pos |-> 0]

Range(s) == {s[k] : k \in DOMAIN s}

\* ord(c) for the ASCII characters the strings below are spelled with.
Ord(c) ==
    CASE c = "\t" -> 9
      [] c = "\n" -> 10
      [] c = " " -> 32
      [] c = "," -> 44
      [] c = "/" -> 47
      [] c = "<" -> 60
      [] c = ">" -> 62
      [] c = "a" -> 97
      [] c = "b" -> 98
      [] c = "c" -> 99
      [] c = "d" -> 100
      [] c = "e" -> 101
      [] c = "i" -> 105
      [] c = "l" -> 108
      [] c = "n" -> 110
      [] c = "o" -> 111
      [] c = "w" -> 119
      [] c = "z" -> 122

\* The string spelled by a sequence of ASCII characters.
Str(cs) == [k \in DOMAIN cs |-> Ord(cs[k])]

\* The columns of every table loaded.
Columns == {"id", "lbl"}

\* The label values that occur in tables.
DataLabels == {Str(<<"a">>), Str(<<"b">>), Str(<<"c">>)}

\* The values given for --remove-list, --include-list and --exclude-list.
UserStrings ==
    { Str(<<"a">>),
      Str(<<"b">>),
      Str(<<"a", ",", "b">>),
      Str(<<"b", ",", "a">>),
      Str(<<"a", ",", " ", "b">>),
      Str(<<"a", ",", "a">>),
      Str(<<"a", ",", "z">>),
      <<>> }

\* The values given for --label-column.
LabelColumns == {"lbl", "nope"}

\* The values given for --new-label-name.
NewLabels == {Str(<<"n", "e", "w">>), Str(<<"a">>)}

\* The values given for --maximum.
Maximums == (0 - 1)..MaxMaximum

\* The values given for --random-state; 42 is the option's default.
DefaultRandomState == 42

Seeds == {DefaultRandomState, 0}

\* A cell read_csv found empty: no string of code points.
NaN == <<0 - 2>>

\* The label values of the tables given to strip-html.
HtmlLabels ==
    { Str(<<"a">>),
      Str(<<"<", "b", ">", "a", "<", "/", "b", ">">>),
      Str(<<"a", "<", "b">>),
      Str(<<"<", "\n", ">", "b">>),
      NaN }

\* The label values of the tables given to dropna.
NaLabels == {Str(<<"a">>), Str(<<"b">>), NaN}

\* The values given for --columns.
ColumnStrings ==
    { Str(<<"l", "b", "l">>),
      Str(<<"i", "d">>),
      Str(<<"i", "d", ",", " ", "l", "b", "l">>),
      Str(<<"\t", "l", "b", "l">>),
      <<11>> \o Str(<<"i", "d">>) \o <<160>>,        \* "\x0bid\xa0"
      <<8195>> \o Str(<<"l", "b", "l">>) \o <<12288>>,  \* "\u2003lbl\u3000"
      <<8203>> \o Str(<<"i", "d">>),                 \* "\u200bid": no white space
      Str(<<"l", "b", "l", ",", "n", "o">>),
      <<>> }

\* The values given for --column.
HtmlColumns == {"lbl", "id", "nope"}

\* The default of head's -n.
DefaultHeadN == 10

\* The tables over a set of labels: row k has id k, an integer in every row.
TablesOver(labels) ==
    UNION { { [k \in 1..n |-> [id |-> k, lbl |-> f[k]]] : f \in [1..n -> labels] }
            : n \in 0..MaxRows }

\* The tables INPUT_FILE may hold for the label commands.
InputTables == TablesOver(DataLabels)

\* The tables INPUT_FILE may hold, by command.
TablesFor(cmd) ==
    IF cmd = "strip_html" THEN TablesOver(HtmlLabels)
    ELSE IF cmd = "dropna" THEN TablesOver(NaLabels)
    ELSE InputTables

\* ------------------------------------------------------------------ strings

\* str.split(","): the pieces between commas, nothing trimmed; "" gives [""].
RECURSIVE SplitFrom(_, _, _)
SplitFrom(s, k, cur) ==
    IF k > Len(s) THEN <<cur>>
    ELSE IF s[k] = Ord(",") THEN <<cur>> \o SplitFrom(s, k + 1, <<>>)
    ELSE SplitFrom(s, k + 1, Append(cur, s[k]))

split(s) == SplitFrom(s, 1, <<>>)

\* The white space str.strip() removes, the characters with str.isspace():
\* U+0009 to U+000D, U+001C to U+0020, U+0085, U+00A0, U+1680, U+2000 to
\* U+200A, U+2028, U+2029, U+202F, U+205F and U+3000.
Whitespace ==
    (9..13) \cup (28..32) \cup {133, 160, 5760} \cup (8192..8202)
        \cup {8232, 8233, 8239, 8287, 12288}

RECURSIVE lstrip(_)
lstrip(s) == IF Len(s) > 0 /\ s[1] \in Whitespace THEN lstrip(Tail(s)) ELSE s

RECURSIVE rstrip(_)
rstrip(s) ==
    IF Len(s) > 0 /\ s[Len(s)] \in Whitespace
    THEN rstrip(SubSeq(s, 1, Len(s) - 1))
    ELSE s

\* x.strip()
strip(s) == lstrip(rstrip(s))

\* The column a string names; a string that names no column is shown as "".
ColumnName(s) ==
    IF s = Str(<<"i", "d">>) THEN "id"
    ELSE IF s = Str(<<"l", "b", "l">>) THEN "lbl"
    ELSE ""

\* re.sub('<.*?>', '', x): every '<' up to the next '>' is dropped, unless a
\* newline stands in between.
RECURSIVE SubTagsFrom(_, _)
SubTagsFrom(s, k) ==
    IF k > Len(s) THEN <<>>
    ELSE LET close == {j \in (k + 1)..Len(s) : s[j] = Ord(">")}
             first == CHOOSE j \in close : \A m \in close : j <= m
         IN  IF /\ s[k] = Ord("<")
                /\ close # {}
                /\ \A m \in (k + 1)..(first - 1) : s[m] # Ord("\n")
             THEN SubTagsFrom(s, first + 1)
             ELSE <<s[k]>> \o SubTagsFrom(s, k + 1)

clean_lmb(x) == SubTagsFrom(x, 1)

\* The cell is a string: an id is an integer, an empty cell is the float NaN.
IsString(row, name) == name = "lbl" /\ row.lbl # NaN

\* x.split(",") if x is not None else []
ParseList(x) == IF x = None THEN <<>> ELSE split(x)

\* ------------------------------------------------------------------- tables

\* df[label_column]
Column(t, name) == [k \in DOMAIN t |-> t[k][name]]

\* series == lbl
eq(series, lbl) == [k \in DOMAIN series |-> series[k] = lbl]

\* series != lbl
ne(series, lbl) == [k \in DOMAIN series |-> series[k] # lbl]

\* isin that looks at the first value only
isin_first(series, values) ==
    [k \in DOMAIN series |-> Len(values) > 0 /\ series[k] = values[1]]

\* series.isin(values)
isin(series, values) == [k \in DOMAIN series |-> series[k] \in Range(values)]

\* ~mask
invert(mask) == [k \in DOMAIN mask |-> ~mask[k]]

\* df[mask]: the rows where the mask is True, in order
RECURSIVE BoolIndexFrom(_, _, _)
BoolIndexFrom(t, mask, k) ==
    IF k > Len(t) THEN <<>>
    ELSE (IF mask[k] THEN <<t[k]>> ELSE <<>>) \o BoolIndexFrom(t, mask, k + 1)

BoolIndex(t, mask) == BoolIndexFrom(t, mask, 1)

\* an assignment that ignores the row selector
loc_assign_all(t, idx, name, value) ==
    [k \in DOMAIN t |-> [t[k] EXCEPT ![name] = value]]

\* df.loc[idx, label_column] = new_label_name
loc_assign(t, idx, name, value) ==
    [k \in DOMAIN t |-> IF idx[k] THEN [t[k] EXCEPT ![name] = value] ELSE t[k]]

\* the sample put in front of the table
df_prepend(t, sample) == sample \o t

\* df.append(sample)
df_append(t, sample) == t \o sample

\* df.drop_duplicates(subset=names): a row goes when an earlier row has the
\* same values in all the named columns.
drop_duplicates(t, names) ==
    BoolIndex(t, [k \in DOMAIN t |->
                    \A j \in 1..(k - 1) : \E name \in Range(names) : t[j][name] # t[k][name]])

\* The rows with a missing value in the named column; an id is never missing.
isna(t, name) == [k \in DOMAIN t |-> name = "lbl" /\ t[k].lbl = NaN]

\* df.dropna(subset=names): KeyError for a name that is no column, else the
\* rows with no missing value in any named column.
dropna_subset(t, names) ==
    IF \E name \in Range(names) : name \notin Columns
    THEN [err |-> "KeyError", rows |-> <<>>]
    ELSE [err |-> NoError,
          rows |-> BoolIndex(t, [k \in DOMAIN t |->
                                   \A name \in Range(names) : ~isna(t, name)[k]])]

\* df[label_column].unique(), as the set of its values
unique(series) == Range(series)

\* ----------------------------------------------------------------- sampling

\* The low byte of the first outputs of MT19937 after init_genrand(seed).
MTLow(seed) ==
    IF seed = 42 THEN
        << 102, 179, 92, 14, 106, 71, 188, 20, 102, 121, 210, 214, 74, 202,
           87, 116, 99, 103, 151, 130, 149, 52, 1, 87, 235, 157, 37, 129,
           191, 187, 20, 160, 203, 57, 21, 252, 235, 88, 48, 218, 58, 254,
           169, 255, 219, 187, 207, 14, 189, 189, 174, 189, 50, 107, 54,
           243, 63, 248, 130, 228, 50, 134, 20, 72 >>
    ELSE
        << 172, 47, 117, 192, 67, 251, 195, 103, 9, 211, 21, 242, 36, 87,
           70, 216, 88, 140, 58, 193, 230, 39, 87, 174, 88, 81, 165, 25, 77,
           72, 9, 148, 115, 208, 243, 197, 254, 79, 175, 192, 82, 99, 216,
           177, 243, 29, 147, 147, 142, 167, 32, 193, 9, 185, 127, 32, 31,
           202, 244, 151, 163, 254, 203, 114 >>

\* one generator shared by all sample calls: seeded once, then drawn on
SharedGenerator(g, seed) == IF g.seed = seed THEN g ELSE [seed |-> seed, pos |-> 0]

\* The generator sample(random_state=int) builds: RandomState(seed), nothing drawn.
NewGenerator(g, seed) == [seed |-> seed, pos |-> 0]

\* The next 32-bit output's low byte, and the generator after it.
NextOutput(g) == [v |-> MTLow(g.seed)[g.pos + 1], g |-> [g EXCEPT !.pos = g.pos + 1]]

\* The smallest 2^k - 1 that is >= n.
RECURSIVE MaskOf(_)
MaskOf(n) == IF n = 0 THEN 0 ELSE 2 * MaskOf(n \div 2) + 1

\* random_interval(max): outputs masked to MaskOf(max) until one is <= max.
RECURSIVE RandomInterval(_, _)
RandomInterval(g, max) ==
    LET o == NextOutput(g)
        v == o.v % (MaskOf(max) + 1)
    IN  IF v <= max THEN [v |-> v, g |-> o.g] ELSE RandomInterval(o.g, max)

\* swap x[a] and x[b] (1-based)
Swap(x, a, b) == [x EXCEPT ![a] = x[b], ![b] = x[a]]

\* shuffle: for k in reversed(range(1, n)): j = random_interval(k); swap x[k], x[j]
RECURSIVE ShuffleFrom(_, _, _)
ShuffleFrom(x, k, g) ==
    IF k < 1 THEN [x |-> x, g |-> g]
    ELSE LET r == RandomInterval(g, k)
         IN  ShuffleFrom(Swap(x, k + 1, r.v + 1), k - 1, r.g)

\* permutation(n): arange(n) shuffled; positions are 1-based here.
Permutation(n, g) == ShuffleFrom([k \in 1..n |-> k], n - 1, g)

\* a sample drawn with replacement: the first position, n times
sample_replace(t, n, g) ==
    IF n < 0 \/ n > Len(t)
    THEN [err |-> "ValueError", rows |-> <<>>, g |-> g]
    ELSE LET p == Permutation(Len(t), g)
         IN  [err |-> NoError, rows |-> [k \in 1..n |-> t[p.x[1]]], g |-> p.g]

\* t.sample(n, random_state=g): rows at permutation(len(t))[:n], or ValueError.
sample(t, n, g) ==
    IF n < 0 \/ n > Len(t)
    THEN [err |-> "ValueError", rows |-> <<>>, g |-> g]
    ELSE LET p == Permutation(Len(t), g)
         IN  [err |-> NoError, rows |-> [k \in 1..n |-> t[p.x[k]]], g |-> p.g]

\* ------------------------------------------------------------ process exit

\* cli(): click drops the command's return value; an exception gives status 1.
ClickExit(rv, exc) == IF exc # NoError THEN 1 ELSE 0

\* --------------------------------------------------------------------- Init

\* A command line with none of the options given.
NoArgv(cmd) ==
    [cmd |-> cmd, label_column |-> "", column |-> "", columns |-> None,
     remove_list |-> None, include_list |-> None, exclude_list |-> None,
     new_label_name |-> None, maximum |-> 0, random_state |-> 0, n |-> 0]

Argv(cmd, col, rem, inc, exc, new, max, seed) ==
    [NoArgv(cmd) EXCEPT !.label_column = col, !.remove_list = rem,
                        !.include_list = inc, !.exclude_list = exc,
                        !.new_label_name = new, !.maximum = max,
                        !.random_state = seed]

HeadArgvs == { [NoArgv("head") EXCEPT !.n = DefaultHeadN] }

StatArgvs == { [NoArgv("stat") EXCEPT !.label_column = col] : col \in LabelColumns }

StripHtmlArgvs == { [NoArgv("strip_html") EXCEPT !.column = col] : col \in HtmlColumns }

DeduplicateArgvs ==
    { [NoArgv("deduplicate") EXCEPT !.columns = cols] : cols \in ColumnStrings }

DropnaArgvs == { [NoArgv("dropna") EXCEPT !.columns = cols] : cols \in ColumnStrings }

RemoveArgvs ==
    { Argv("remove", col, rem, None, None, None, 0, 0) :
        col \in LabelColumns, rem \in UserStrings }

DownsampleArgvs ==
    { Argv("random_downsample", col, None, a[1], None, None, a[2], a[3]) :
        col \in LabelColumns,
        a \in (UserStrings \cup {None}) \X Maximums \X Seeds }

MergeArgvs ==
    { Argv("merge", col, None, a[1], a[2], a[3], 0, 0) :
        col \in LabelColumns,
        a \in (UserStrings \cup {None}) \X (UserStrings \cup {None}) \X NewLabels }

Argvs ==
    HeadArgvs \cup StripHtmlArgvs \cup DeduplicateArgvs \cup StatArgvs
        \cup DropnaArgvs \cup RemoveArgvs \cup DownsampleArgvs \cup MergeArgvs

Init ==
    /\ argv \in Argvs
    /\ input_file \in TablesFor(argv.cmd)
    /\ output_file = NoFile
    /\ pc = "start"
    /\ df = <<>>
    /\ include = <<>>
    /\ i = 0
    /\ missing = 0
    /\ reported = {}
    /\ error = NoError
    /\ exit_status = Running
    /\ rng = NoGenerator
    /\ prev_df = <<>>
    /\ run = 1
    /\ first_result = [output |-> NoFile, exit_status |-> Running, error |-> NoError]

\* The process ends: the command returned rv, or raised exc (rv is then unused).
Exit(rv, exc) ==
    /\ pc' = "done"
    /\ error' = exc
    /\ exit_status' = ClickExit(rv, exc)

\* sys.exit(code)
SysExit(code) ==
    /\ pc' = "done"
    /\ error' = NoError
    /\ exit_status' = code

\* --------------------------------------------------------------------- head

head ==
    /\ pc = "start"
    /\ argv.cmd = "head"
    /\ df' = input_file
    /\ Exit(0, NoError)
    /\ UNCHANGED <<input_file, output_file, argv, include, i, missing, reported,
                   rng, prev_df, run, first_result>>

\* --------------------------------------------------------------- strip_html

strip_html ==
    /\ pc = "start"
    /\ argv.cmd = "strip_html"
    /\ IF argv.column \notin Columns
       THEN /\ df' = input_file
            /\ Exit(1, NoError)
            /\ UNCHANGED output_file
       ELSE IF \E k \in DOMAIN input_file : ~IsString(input_file[k], argv.column)
       THEN /\ df' = input_file
            /\ Exit(0, "TypeError")
            /\ UNCHANGED output_file
       ELSE /\ df' = [k \in DOMAIN input_file |->
                        [input_file[k] EXCEPT
                            ![argv.column] = clean_lmb(input_file[k][argv.column])]]
            /\ Exit(0, NoError)
            /\ output_file' = File(df')
    /\ UNCHANGED <<input_file, argv, include, i, missing, reported, rng, prev_df,
                   run, first_result>>

\* -------------------------------------------------------------- deduplicate

deduplicate ==
    /\ pc = "start"
    /\ argv.cmd = "deduplicate"
    /\ LET pieces == split(argv.columns)
           columns == [k \in DOMAIN pieces |-> ColumnName(strip(pieces[k]))]
       IN  IF \E k \in DOMAIN columns : columns[k] \notin Columns
           THEN /\ df' = input_file
                /\ SysExit(1)
                /\ UNCHANGED output_file
           ELSE /\ df' = drop_duplicates(input_file, columns)
                /\ Exit(0, NoError)
                /\ output_file' = File(df')
    /\ UNCHANGED <<input_file, argv, include, i, missing, reported, rng, prev_df,
                   run, first_result>>

\* --------------------------------------------------------------------- stat

stat ==
    /\ pc = "start"
    /\ argv.cmd = "stat"
    /\ df' = input_file
    /\ Exit(0, IF argv.label_column \in Columns THEN NoError ELSE "KeyError")
    /\ UNCHANGED <<input_file, output_file, argv, include, i, missing, reported,
                   rng, prev_df, run, first_result>>

\* ------------------------------------------------------------------- dropna

dropna ==
    /\ pc = "start"
    /\ argv.cmd = "dropna"
    /\ df' = input_file
    /\ LET pieces == split(argv.columns)
           after_drop == dropna_subset(input_file,
                                       [k \in DOMAIN pieces |-> ColumnName(pieces[k])])
       IN  IF after_drop.err # NoError
           THEN /\ Exit(0, after_drop.err)
                /\ UNCHANGED output_file
           ELSE /\ Exit(0, NoError)
                /\ output_file' = File(after_drop.rows)
    /\ UNCHANGED <<input_file, argv, include, i, missing, reported, rng, prev_df,
                   run, first_result>>

\* ------------------------------------------------------------------- remove

remove ==
    /\ pc = "start"
    /\ argv.cmd = "remove"
    /\ df' = IF argv.label_column \in Columns
             THEN BoolIndex(input_file,
                            invert(isin(Column(input_file, argv.label_column),
                                        split(argv.remove_list))))
             ELSE input_file
    /\ IF argv.label_column \notin Columns
       THEN /\ Exit(1, NoError)
            /\ UNCHANGED output_file
       ELSE /\ Exit(0, NoError)
            /\ output_file' = File(df')
    /\ UNCHANGED <<input_file, argv, include, i, missing, reported, rng, prev_df,
                   run, first_result>>

\* -------------------------------------------------------------------- merge

\* a check of the include list alone
MissingInclude(inc, exc, labels) == {l \in Range(inc) : l \notin labels}

\* The values of set(include + exclude) that are not in labels.
MissingLabels(inc, exc, labels) == {l \in Range(inc \o exc) : l \notin labels}

\* a and b, on two Series: bool(a) raises ValueError.
SeriesAnd(a, b) == [err |-> "ValueError", idx |-> <<>>]

\* The row selector of lines 225-231.
MergeIdx(series, inc, exc) ==
    IF Len(inc) > 0 /\ Len(exc) > 0
    THEN SeriesAnd(isin(series, inc), invert(isin(series, exc)))
    ELSE IF Len(exc) > 0
    THEN [err |-> NoError, idx |-> invert(isin(series, exc))]
    ELSE [err |-> NoError, idx |-> isin(series, inc)]

merge ==
    /\ pc = "start"
    /\ argv.cmd = "merge"
    /\ LET inc == ParseList(argv.include_list)
           exc == ParseList(argv.exclude_list)
       IN  IF Len(inc) < 1 /\ Len(exc) < 1
           THEN /\ Exit(1, NoError)
                /\ UNCHANGED <<df, missing, reported, output_file>>
           ELSE IF argv.label_column \notin Columns
           THEN /\ df' = input_file
                /\ Exit(1, NoError)
                /\ UNCHANGED <<missing, reported, output_file>>
           ELSE LET series == Column(input_file, argv.label_column)
                    miss == MissingLabels(inc, exc, unique(series))
                    sel == MergeIdx(series, inc, exc)
                IN  /\ reported' = miss
                    /\ missing' = Cardinality(miss)
                    /\ IF missing' > 0
                       THEN /\ df' = input_file
                            /\ Exit(1, NoError)
                            /\ UNCHANGED output_file
                       ELSE IF sel.err # NoError
                       THEN /\ df' = input_file
                            /\ Exit(0, sel.err)
                            /\ UNCHANGED output_file
                       ELSE /\ df' = loc_assign(input_file, sel.idx,
                                                argv.label_column, argv.new_label_name)
                            /\ Exit(0, NoError)
                            /\ output_file' = File(df')
    /\ UNCHANGED <<input_file, argv, include, i, rng, prev_df, run, first_result>>

\* -------------------------------------------------------- random_downsample

\* Lines 147-160: parse the include list, load the table, check the column.
random_downsample_begin ==
    /\ pc = "start"
    /\ argv.cmd = "random_downsample"
    /\ include' = ParseList(argv.include_list)
    /\ IF Len(include') < 1
       THEN /\ Exit(1, NoError)
            /\ UNCHANGED <<df, i>>
       ELSE IF argv.label_column \notin Columns
       THEN /\ df' = input_file
            /\ Exit(1, NoError)
            /\ UNCHANGED i
       ELSE /\ df' = input_file
            /\ pc' = "loop"
            /\ i' = 1
            /\ UNCHANGED <<error, exit_status>>
    /\ UNCHANGED <<input_file, output_file, argv, missing, reported, rng, prev_df,
                   run, first_result>>

\* Lines 162-168: one iteration of the loop, for the label include[i].
random_downsample_iter ==
    /\ pc = "loop"
    /\ i <= Len(include)
    /\ LET lbl == include[i]
           series == Column(df, argv.label_column)
           s == sample(BoolIndex(df, eq(series, lbl)), argv.maximum,
                       NewGenerator(rng, argv.random_state))
       IN  /\ rng' = s.g
           /\ prev_df' = df
           /\ IF s.err # NoError
              THEN /\ Exit(0, s.err)
                   /\ UNCHANGED <<df, i>>
              ELSE /\ df' = df_append(BoolIndex(df, ne(series, lbl)), s.rows)
                   /\ i' = i + 1
                   /\ UNCHANGED <<pc, error, exit_status>>
    /\ UNCHANGED <<input_file, output_file, argv, include, missing, reported,
                   run, first_result>>

\* Lines 171-172: the loop is over, the table is written.
random_downsample_save ==
    /\ pc = "loop"
    /\ i > Len(include)
    /\ output_file' = File(df)
    /\ Exit(0, NoError)
    /\ UNCHANGED <<input_file, argv, df, include, i, missing, reported, rng,
                   prev_df, run, first_result>>

\* ------------------------------------------------------------------- rerun

\* The same command line is run once more, by a new process, on the same input
\* file; the first process's output is set aside in first_result.
Rerun ==
    /\ pc = "done"
    /\ run = 1
    /\ run' = 2
    /\ first_result' = [output |-> output_file, exit_status |-> exit_status,
                        error |-> error]
    /\ output_file' = NoFile
    /\ pc' = "start"
    /\ df' = <<>>
    /\ include' = <<>>
    /\ i' = 0
    /\ missing' = 0
    /\ reported' = {}
    /\ error' = NoError
    /\ exit_status' = Running
    /\ prev_df' = <<>>
    /\ UNCHANGED <<input_file, argv, rng>>

Next ==
    \/ head
    \/ strip_html
    \/ deduplicate
    \/ stat
    \/ dropna
    \/ remove
    \/ merge
    \/ random_downsample_begin
    \/ random_downsample_iter
    \/ random_downsample_save
    \/ Rerun

Spec == Init /\ [][Next]_vars

\* ------------------------------------------------------- claims: vocabulary

\* The label values a list option names, as the code parses it.
ListSet(x) == Range(ParseList(x))

\* The label values a list option names, each trimmed of surrounding white
\* space as x.strip() trims it.
TrimmedSet(x) == {strip(e) : e \in ListSet(x)}

LabelsOf(t) == {t[k].lbl : k \in DOMAIN t}

Count(t, lbl) == Cardinality({k \in DOMAIN t : t[k].lbl = lbl})

\* The rows of t whose label is in S, in order.
Keep(t, S) == SelectSeq(t, LAMBDA r : r.lbl \in S)

\* The rows of t whose label is not in S, in order.
Drop(t, S) == SelectSeq(t, LAMBDA r : r.lbl \notin S)

\* No row occurs twice in t.
Distinct(t) == \A p, q \in DOMAIN t : p # q => t[p] # t[q]

\* Where row r stands in t.
PosIn(t, r) == CHOOSE k \in DOMAIN t : t[k] = r

ColumnOk == argv.label_column \in Columns

Done(cmd) == pc = "done" /\ argv.cmd = cmd

\* The loop of random-downsample has run at least one iteration (the last one
\* may have raised).
IterAttempted ==
    /\ argv.cmd = "random_downsample"
    /\ pc \in {"loop", "done"}
    /\ i >= 1
    /\ (error # NoError \/ i > 1)

\* The label of the last iteration.
LastLbl == IF error # NoError THEN include[i] ELSE include[i - 1]

\* The last iteration completed.
IterCompleted == IterAttempted /\ error = NoError

\* ----------------------------------------------------------------------- C1

\* C1: merge with a non-empty include list and a non-empty exclude list whose
\* values all occur in the label column completes, and its output has the label
\* overwritten with the new name on exactly the rows whose original label is in
\* the include list and not in the exclude list.
C1_MergeIncludeAndExclude ==
    ( /\ Done("merge")
      /\ ColumnOk
      /\ Len(ParseList(argv.include_list)) > 0
      /\ Len(ParseList(argv.exclude_list)) > 0
      /\ ListSet(argv.include_list) \cup ListSet(argv.exclude_list)
            \subseteq LabelsOf(input_file) )
    => /\ error = NoError
       /\ output_file.written
       /\ Len(output_file.table) = Len(input_file)
       /\ \A k \in DOMAIN input_file :
            output_file.table[k] =
                IF /\ input_file[k].lbl \in ListSet(argv.include_list)
                   /\ input_file[k].lbl \notin ListSet(argv.exclude_list)
                THEN [input_file[k] EXCEPT !.lbl = argv.new_label_name]
                ELSE input_file[k]

\* ----------------------------------------------------------------------- C2

\* C2: in random-downsample, an iteration for a label that has at most
\* `maximum` rows in the current table raises no error and leaves every one of
\* those rows in the table, none dropped and none added.
C2_SmallLabelKept ==
    (IterAttempted /\ Count(prev_df, LastLbl) <= argv.maximum)
    => /\ error = NoError
       /\ \A k \in DOMAIN prev_df :
            prev_df[k].lbl = LastLbl =>
                Cardinality({q \in DOMAIN df : df[q] = prev_df[k]}) = 1
       /\ Count(df, LastLbl) = Count(prev_df, LastLbl)

\* ----------------------------------------------------------------------- C3

\* The values of the include and exclude lists that the label column lacks.
UnknownValues ==
    (ListSet(argv.include_list) \cup ListSet(argv.exclude_list))
        \ LabelsOf(input_file)

\* merge got as far as checking the listed values.
MergeValidates ==
    /\ Done("merge")
    /\ ColumnOk
    /\ ListSet(argv.include_list) \cup ListSet(argv.exclude_list) # {}

\* C3: when some value of the include or exclude list does not occur in the
\* label column, merge returns early after checking every value of the union
\* (each missing one reported and counted), relabels no row and writes no
\* output file.
C3_MergeUnknownLabelAborts ==
    (MergeValidates /\ UnknownValues # {})
    => /\ ~output_file.written
       /\ error = NoError
       /\ df = input_file
       /\ reported = UnknownValues
       /\ missing = Cardinality(UnknownValues)

C3_Witness ==
    /\ MergeValidates
    /\ Cardinality(UnknownValues) >= 2
    /\ Cardinality(reported) >= 2
    /\ Len(input_file) > 0
    /\ ~output_file.written

\* ----------------------------------------------------------------------- C4

\* The rows of t labelled lbl are distinct rows of the label-lbl rows of from,
\* and there are exactly n of them.
ExactSample(t, from, lbl, n) ==
    /\ Count(t, lbl) = n
    /\ Distinct(Keep(t, {lbl}))
    /\ Range(Keep(t, {lbl})) \subseteq Range(Keep(from, {lbl}))

\* C4: in random-downsample, an iteration for a label with more than `maximum`
\* rows leaves exactly `maximum` rows of that label, each a distinct row of the
\* label's rows before the iteration; and so does the output file for every
\* label of the include list with more than `maximum` rows in the input.
C4_SampleWithoutReplacement ==
    /\ (IterCompleted /\ Count(prev_df, LastLbl) > argv.maximum)
       => ExactSample(df, prev_df, LastLbl, argv.maximum)
    /\ (Done("random_downsample") /\ output_file.written)
       => \A lbl \in Range(include) :
            Count(input_file, lbl) > argv.maximum
            => ExactSample(output_file.table, input_file, lbl, argv.maximum)

C4_Witness ==
    /\ Done("random_downsample")
    /\ output_file.written
    /\ argv.maximum >= 2
    /\ \E lbl \in Range(include) :
        /\ Count(input_file, lbl) > argv.maximum
        /\ Count(output_file.table, lbl) = argv.maximum

\* ----------------------------------------------------------------------- C5

\* C5: random-downsample is deterministic: the repeated process, given the same
\* table and the same command line, ends as the first one did, with the same
\* output table; and every sample call draws from a generator freshly seeded
\* with random-state, whatever was drawn for an earlier label or process.
C5_DownsampleDeterministic ==
    /\ (Done("random_downsample") /\ run = 2)
       => /\ output_file = first_result.output
          /\ error = first_result.error
          /\ exit_status = first_result.exit_status
    /\ IterCompleted
       => rng = Permutation(Count(prev_df, LastLbl),
                            [seed |-> argv.random_state, pos |-> 0]).g

C5_Witness ==
    /\ Done("random_downsample")
    /\ run = 2
    /\ output_file.written
    /\ Len(include) >= 2
    /\ output_file.table # input_file
    /\ output_file = first_result.output
    /\ rng.pos > 0

\* ----------------------------------------------------------------------- C6

\* C6: remove, given an existing label column, writes exactly the input rows
\* whose label is not in the remove list: no output row has a listed label,
\* every other input row is there exactly once, and the kept rows are in their
\* original order; a listed value that occurs nowhere is no error.
C6_RemovePartition ==
    (Done("remove") /\ ColumnOk)
    => LET out == output_file.table
           rem == ListSet(argv.remove_list)
       IN  /\ output_file.written
           /\ error = NoError
           /\ \A k \in DOMAIN out : out[k].lbl \notin rem /\ out[k] \in Range(input_file)
           /\ \A j \in DOMAIN input_file :
                input_file[j].lbl \notin rem
                => Cardinality({k \in DOMAIN out : out[k] = input_file[j]}) = 1
           /\ \A p, q \in DOMAIN out : p < q => out[p].id < out[q].id

C6_Witness ==
    /\ Done("remove")
    /\ ColumnOk
    /\ output_file.written
    /\ ListSet(argv.remove_list) \cap LabelsOf(input_file) # {}
    /\ ListSet(argv.remove_list) \ LabelsOf(input_file) # {}
    /\ Len(output_file.table) >= 2
    /\ Len(output_file.table) < Len(input_file)

\* ----------------------------------------------------------------------- C7

\* The rows merge is to relabel, by the case of its two lists.
Selected(r) ==
    LET inc == ListSet(argv.include_list)
        exc == ListSet(argv.exclude_list)
    IN  IF inc # {} /\ exc # {} THEN r.lbl \in inc /\ r.lbl \notin exc
        ELSE IF exc # {} THEN r.lbl \notin exc
        ELSE r.lbl \in inc

\* C7: whenever merge succeeds, the output has the input's rows in the input's
\* order, every non-selected row keeps its label (a selected one has the new
\* label), and the other column is unchanged on every row.
C7_MergeFrame ==
    (Done("merge") /\ output_file.written)
    => LET out == output_file.table
       IN  /\ Len(out) = Len(input_file)
           /\ \A k \in DOMAIN input_file :
                /\ out[k].id = input_file[k].id
                /\ ~Selected(input_file[k]) => out[k].lbl = input_file[k].lbl
                /\ Selected(input_file[k]) => out[k].lbl = argv.new_label_name

C7_Witness ==
    /\ Done("merge")
    /\ output_file.written
    /\ \E k \in DOMAIN input_file : Selected(input_file[k])
    /\ \E k \in DOMAIN input_file :
        ~Selected(input_file[k]) /\ input_file[k].lbl # argv.new_label_name
    /\ output_file.table # input_file

\* ----------------------------------------------------------------------- C8

\* The command got as far as checking the label column.
ColumnChecked ==
    /\ pc = "done"
    /\ \/ argv.cmd = "remove"
       \/ argv.cmd = "random_downsample" /\ ListSet(argv.include_list) # {}
       \/ argv.cmd = "merge"
            /\ ListSet(argv.include_list) \cup ListSet(argv.exclude_list) # {}

\* C8: when the label column is not a column of the loaded table, remove,
\* random-downsample and merge end the process with a non-zero exit status and
\* write no output file.
C8_MissingColumnExitsNonZero ==
    (ColumnChecked /\ ~ColumnOk)
    => exit_status # 0 /\ ~output_file.written

\* ----------------------------------------------------------------------- C9

\* C9: the remove and include lists are sets of label values split on commas
\* and trimmed of surrounding white space: remove drops exactly the rows whose
\* label is in the trimmed set, and merge with an include list alone relabels
\* exactly those whose label is in the trimmed set.
C9_ListsTrimmed ==
    /\ (Done("remove") /\ ColumnOk)
       => /\ output_file.written
          /\ output_file.table = Drop(input_file, TrimmedSet(argv.remove_list))
    /\ ( /\ Done("merge")
         /\ ColumnOk
         /\ argv.exclude_list = None
         /\ TrimmedSet(argv.include_list) # {}
         /\ TrimmedSet(argv.include_list) \subseteq LabelsOf(input_file) )
       => /\ output_file.written
          /\ \A k \in DOMAIN output_file.table :
                (output_file.table[k].lbl = argv.new_label_name)
                <=> \/ input_file[k].lbl \in TrimmedSet(argv.include_list)
                    \/ input_file[k].lbl = argv.new_label_name

\* ---------------------------------------------------------------------- C10

\* After a completed iteration the table is the rows not labelled with the
\* iteration's label, in their previous order, followed by rows of that label
\* taken from the previous table.
IterationRebuilds ==
    IterCompleted
    => LET rest == Drop(prev_df, {LastLbl})
           tail == SubSeq(df, Len(rest) + 1, Len(df))
       IN  /\ Len(df) >= Len(rest)
           /\ SubSeq(df, 1, Len(rest)) = rest
           /\ \A k \in DOMAIN tail :
                tail[k].lbl = LastLbl /\ tail[k] \in Range(prev_df)
           /\ Distinct(tail)

\* The kept rows of the iteration's label stand in the order they had before.
KeptInPreviousOrder ==
    IterCompleted
    => LET kept == Keep(df, {LastLbl})
       IN  \A p, q \in DOMAIN kept :
             p < q => PosIn(prev_df, kept[p]) < PosIn(prev_df, kept[q])

\* 0 for a label outside the include list, else its place in the list.
Rank(lbl) ==
    IF lbl \in Range(include)
    THEN CHOOSE k \in DOMAIN include : include[k] = lbl
    ELSE 0

\* After the loop over distinct include labels: the other labels' rows first,
\* all of them and in input order, then one block per include label, in list
\* order.
BlocksInListOrder ==
    ( /\ Done("random_downsample")
      /\ output_file.written
      /\ Cardinality(Range(include)) = Len(include) )
    => LET out == output_file.table
       IN  /\ Drop(out, Range(include)) = Drop(input_file, Range(include))
           /\ \A p, q \in DOMAIN out : p < q => Rank(out[p].lbl) <= Rank(out[q].lbl)

\* C10 as stated: rebuilt as the other rows then the kept rows, the kept rows in
\* their previous relative order, and the blocks in list order at the end.
C10_Original == IterationRebuilds /\ KeptInPreviousOrder /\ BlocksInListOrder

\* C10, amended: after each completed iteration for a label L the table is the
\* rows not labelled L in their previous relative order, followed by the kept
\* label-L rows, which are distinct rows of the previous label-L rows in the
\* order the sampler drew them (not necessarily their previous order); after
\* the loop over distinct include labels the rows of other labels are all
\* present, in input order, ahead of the include labels' blocks in list order.
C10_RebuildOrder == IterationRebuilds /\ BlocksInListOrder

C10_Witness ==
    /\ Done("random_downsample")
    /\ output_file.written
    /\ Len(include) = 2
    /\ include[1] # include[2]
    /\ \A lbl \in Range(include) : Count(output_file.table, lbl) >= 1
    /\ \E k \in DOMAIN output_file.table : output_file.table[k].lbl \notin Range(include)
    /\ output_file.table # input_file

====
